---- MODULE Spec2Model ----
(***************************************************************************)
(* Game Progression Engine of khelam-na: sessions, XP ledger, per-game     *)
(* statistics, achievements and leaderboards, as implemented by the        *)
(* services under src/backend/app/services.                                *)
(*                                                                         *)
(* Level of abstraction.  The Python of the services is modelled exactly   *)
(* (guards, early returns, order of assignments, exceptions raised by the  *)
(* language such as TypeError).  The persistence layer is modelled as a    *)
(* store of typed rows: a row created by a service starts with the column  *)
(* defaults its model class declares, a query filters rows by equality of  *)
(* column values (a comparison with a value that is no id matches no row), *)
(* and commit makes the writes visible.  An exception that leaves a        *)
(* handler discards the writes made since the handler's last commit.       *)
(* Time is a clock of ticks; DayLen ticks make one day.                    *)
(***************************************************************************)
EXTENDS Integers, Sequences, FiniteSets, TLC

(* ------------------------------ bounds -------------------------------- *)
MaxSessions == 2
MaxTime == 2
MaxAwards == 1
DayLen == 2

(* ------------------------------ catalog ------------------------------- *)
NULL == -1
NoGame == "none"

Users == {"u1", "u2"}
UserIds == Users \cup {"u0"}

Games == {"g1", "g2", "g3"}
GameIds == Games \cup {"g0"}
GameActive == [g \in Games |-> g = "g1"]

Scores == {0, 20, 40}
Blobs == {"s1"}
EmptyBlob == "{}"

IN_PROGRESS == "IN_PROGRESS"
COMPLETED == "COMPLETED"
ABANDONED == "ABANDONED"
GameSessionStatusEnum == {IN_PROGRESS, COMPLETED, ABANDONED}

GAME_COMPLETION == "GAME_COMPLETION"
ACHIEVEMENT == "ACHIEVEMENT"

ErrNone == ""
ErrGame == "Game not found or inactive"
ErrUser == "User not found"
ErrSessionNotFound == "Session not found"
ErrNotActive == "Session is not active"
ErrXP == "XP result not found"
Raised == "raised"

(* A custom-stats value: absent, a number, or a non-numeric value. *)
Absent == [present |-> FALSE, num |-> FALSE, v |-> 0]
Num(n) == [present |-> TRUE, num |-> TRUE, v |-> n]
Str == [present |-> TRUE, num |-> FALSE, v |-> 0]
FinalStatsInputs == {Absent, Num(1), Str}

VARIABLES now, sessions, playCount, users, txs, stats, unlockCount, ua,
          entries, result, reqs, fin, fout

vars == <<now, sessions, playCount, users, txs, stats, unlockCount, ua,
          entries, result, reqs, fin, fout>>

(* The state of the requests in flight and the input and output of a
   function applied on its own. *)
aux == <<reqs, fin, fout>>

(* --------------------------- configuration ---------------------------- *)
(* Game.xp_calculation of each game: a rate is a pair <<numerator,         *)
(* denominator>>; a block that is not configured has present = FALSE.      *)
NoBlock == [present |-> FALSE, target_seconds |-> 0, bonus_per_second |-> <<0, 1>>,
            bonus_per_day |-> 0, max_bonus |-> 0]
XpCalculation ==
  [g \in Games |->
     IF g = "g1"
     THEN [base |-> 10, score_multiplier |-> <<1, 2>>,
           time_bonus |-> [present |-> TRUE, target_seconds |-> 2,
                           bonus_per_second |-> <<1, 2>>, bonus_per_day |-> 0,
                           max_bonus |-> 5],
           streak_bonus |-> [present |-> TRUE, target_seconds |-> 0,
                             bonus_per_second |-> <<0, 1>>, bonus_per_day |-> 5,
                             max_bonus |-> 100]]
     ELSE IF g = "g3"
     THEN [base |-> 10, score_multiplier |-> <<1, 2>>,
           time_bonus |-> [present |-> TRUE, target_seconds |-> 60,
                           bonus_per_second |-> <<1, 2>>, bonus_per_day |-> 0,
                           max_bonus |-> 50],
           streak_bonus |-> [present |-> TRUE, target_seconds |-> 0,
                             bonus_per_second |-> <<0, 1>>, bonus_per_day |-> 5,
                             max_bonus |-> 100]]
     ELSE [base |-> 10, score_multiplier |-> <<0, 1>>,
           time_bonus |-> NoBlock, streak_bonus |-> NoBlock]]

(* Achievement rows: scope, requirement_definition, xp_reward, is_active. *)
Achievements == {"a1", "a2", "a3", "a4", "a5", "a6"}
AchievementRow ==
  [a \in Achievements |->
     CASE a = "a1" -> [game_id |-> NoGame, type |-> "stat_threshold", stat |-> "total_xp",
                       required |-> 10, xp_reward |-> 5, is_active |-> TRUE]
       [] a = "a2" -> [game_id |-> NoGame, type |-> "custom_stat", stat |-> "k",
                       required |-> 1, xp_reward |-> 5, is_active |-> TRUE]
       [] a = "a3" -> [game_id |-> "g1", type |-> "score_threshold", stat |-> "",
                       required |-> 20, xp_reward |-> 5, is_active |-> TRUE]
       [] a = "a4" -> [game_id |-> NoGame, type |-> "streak", stat |-> "",
                       required |-> 1, xp_reward |-> 5, is_active |-> FALSE]
       [] a = "a5" -> [game_id |-> "g1", type |-> "stat_threshold", stat |-> "games_completed",
                       required |-> 1, xp_reward |-> 0, is_active |-> TRUE]
       [] a = "a6" -> [game_id |-> NoGame, type |-> "stat_threshold", stat |-> "total_xp",
                       required |-> 0, xp_reward |-> 5, is_active |-> TRUE]]

(* Leaderboard rows: scope, ranking_criteria, time_period, is_active. *)
Leaderboards == {"lb1", "lb2", "lb3", "lb4", "lb5"}
LeaderboardRow ==
  [l \in Leaderboards |->
     CASE l = "lb1" -> [game_id |-> "g1", type |-> "best_score", has_min |-> TRUE,
                        min_games |-> 1, time_period |-> "ALL_TIME", is_active |-> TRUE]
       [] l = "lb2" -> [game_id |-> NoGame, type |-> "total_xp", has_min |-> FALSE,
                        min_games |-> 0, time_period |-> "ALL_TIME", is_active |-> TRUE]
       [] l = "lb3" -> [game_id |-> "g1", type |-> "game_xp", has_min |-> TRUE,
                        min_games |-> 2, time_period |-> "DAILY", is_active |-> TRUE]
       [] l = "lb4" -> [game_id |-> "g1", type |-> "average_score", has_min |-> FALSE,
                        min_games |-> 0, time_period |-> "ALL_TIME", is_active |-> TRUE]
       [] l = "lb5" -> [game_id |-> "g1", type |-> "total_xp", has_min |-> FALSE,
                        min_games |-> 0, time_period |-> "ALL_TIME", is_active |-> TRUE]]

(* ------------------------------ helpers ------------------------------- *)
Min(a, b) == IF a < b THEN a ELSE b
Max(a, b) == IF a > b THEN a ELSE b

RECURSIVE GCD(_, _)
GCD(a, b) == IF b = 0 THEN a ELSE GCD(b, a % b)

(* A non-negative rational in lowest terms. *)
Rat(n, d) == IF n = 0 THEN <<0, 1>> ELSE <<n \div GCD(n, d), d \div GCD(n, d)>>

(* int(x * rate) for x >= 0. *)
IntTimes(x, rate) == (x * rate[1]) \div rate[2]

RECURSIVE SumXP(_, _)
SumXP(seq, u) ==
  IF seq = <<>> THEN 0
  ELSE (IF Head(seq).user_id = u THEN Head(seq).xp_amount ELSE 0) + SumXP(Tail(seq), u)

(* ------------------------------- rows --------------------------------- *)
(* GameSession(game_id, user_id, game_state, status) with the column
   defaults of the model class. *)
NewSession(g, u, blob, t) ==
  [game_id |-> g, user_id |-> u, status |-> IN_PROGRESS, game_state |-> blob,
   final_stats |-> Absent, score |-> 0, xp_earned |-> 0, completed |-> FALSE,
   duration_seconds |-> 0, started_at |-> t, completed_at |-> NULL]

(* The level-threshold table: one level every LevelStep XP. *)
LevelStep == 20
LevelOf(xp) == 1 + (Max(xp, 0) \div LevelStep)

NewUser == [total_xp |-> 0, current_level |-> LevelOf(0)]

(* User.add_xp(amount): the new user row and whether the level rose. *)
AddXp(user, amount) ==
  LET total == user.total_xp + amount
      level == LevelOf(total)
  IN  [user |-> [total_xp |-> total, current_level |-> level],
       leveled_up |-> level > user.current_level]

(* UserGameStats(user_id, game_id) with the column defaults; exists = FALSE
   stands for "no row". *)
NoStats ==
  [exists |-> FALSE, games_played |-> 0, games_completed |-> 0, total_xp_earned |-> 0,
   current_streak |-> 0, best_streak |-> 0, custom_stats |-> Absent,
   average_score |-> <<0, 1>>, best_score |-> 0, last_played_at |-> NULL, rows |-> 0]
NewStats(t) == [NoStats EXCEPT !.exists = TRUE, !.last_played_at = t, !.rows = 1]

(* UserAchievement: unlocked_at defaults to the value datetime.now() had
   when the model class was defined. *)
ImportTime == 0
NoProgress == [current |-> 0, required |-> 0, has_pct |-> FALSE, percentage |-> 0]
NoUA == [exists |-> FALSE, progress |-> NoProgress, unlocked_at |-> NULL, rows |-> 0]


(* ----------------------------- XP ledger ------------------------------ *)
(* The rows a handler works on. *)
DB == [sessions |-> sessions, users |-> users, txs |-> txs, stats |-> stats,
       unlockCount |-> unlockCount, ua |-> ua, entries |-> entries]

NoAward == [ok |-> FALSE, new_total_xp |-> 0, new_level |-> 0, leveled_up |-> FALSE,
            xp_earned |-> 0]

AwardXp_AlwaysLeveled(db, user_id, amount, type, game_id, session_id, reference_id) ==
  IF user_id \notin Users
  THEN [db |-> db, res |-> NoAward]
  ELSE LET tx == [user_id |-> user_id, xp_amount |-> amount, type |-> type,
                  game_id |-> game_id, session_id |-> session_id,
                  reference_id |-> reference_id]
           r  == AddXp(db.users[user_id], amount)
       IN  [db  |-> [db EXCEPT !.txs = Append(@, tx), !.users[user_id] = r.user],
            res |-> [ok |-> TRUE, new_total_xp |-> r.user.total_xp,
                     new_level |-> r.user.current_level, leveled_up |-> TRUE,
                     xp_earned |-> amount]]

AwardXp_Overwrites(db, user_id, amount, type, game_id, session_id, reference_id) ==
  IF user_id \notin Users
  THEN [db |-> db, res |-> NoAward]
  ELSE LET tx == [user_id |-> user_id, xp_amount |-> amount, type |-> type,
                  game_id |-> game_id, session_id |-> session_id,
                  reference_id |-> reference_id]
           same == {i \in DOMAIN db.txs : db.txs[i].user_id = user_id /\ db.txs[i].type = type}
           r  == AddXp(db.users[user_id], amount)
       IN  [db  |-> [db EXCEPT !.txs = IF same = {} THEN Append(@, tx)
                                       ELSE [@ EXCEPT ![CHOOSE i \in same : TRUE] = tx],
                               !.users[user_id] = r.user],
            res |-> [ok |-> TRUE, new_total_xp |-> r.user.total_xp,
                     new_level |-> r.user.current_level, leveled_up |-> r.leveled_up,
                     xp_earned |-> amount]]

AwardXp_NoTransaction(db, user_id, amount, type, game_id, session_id, reference_id) ==
  IF user_id \notin Users
  THEN [db |-> db, res |-> NoAward]
  ELSE LET r == AddXp(db.users[user_id], amount)
       IN  [db  |-> [db EXCEPT !.users[user_id] = r.user],
            res |-> [ok |-> TRUE, new_total_xp |-> r.user.total_xp,
                     new_level |-> r.user.current_level, leveled_up |-> r.leveled_up,
                     xp_earned |-> amount]]

(* XPService.award_xp: one transaction and the user's new totals, committed
   together; (None, "User not found") when the user does not exist. *)
AwardXp(db, user_id, amount, type, game_id, session_id, reference_id) ==
  IF user_id \notin Users
  THEN [db |-> db, res |-> NoAward]
  ELSE LET tx == [user_id |-> user_id, xp_amount |-> amount, type |-> type,
                  game_id |-> game_id, session_id |-> session_id,
                  reference_id |-> reference_id]
           r  == AddXp(db.users[user_id], amount)
       IN  [db  |-> [db EXCEPT !.txs = Append(@, tx), !.users[user_id] = r.user],
            res |-> [ok |-> TRUE, new_total_xp |-> r.user.total_xp,
                     new_level |-> r.user.current_level, leveled_up |-> r.leveled_up,
                     xp_earned |-> amount]]

CalculateTimeBonus_Uncapped(duration_seconds, xp_calc) ==
  LET cfg == xp_calc.time_bonus
  IN  IF cfg.present /\ duration_seconds < cfg.target_seconds
      THEN IntTimes(cfg.target_seconds * duration_seconds, cfg.bonus_per_second)
      ELSE 0

(* XPService._calculate_time_bonus *)
CalculateTimeBonus(duration_seconds, xp_calc) ==
  LET cfg == xp_calc.time_bonus
  IN  IF ~cfg.present THEN 0
      ELSE IF duration_seconds < cfg.target_seconds
           THEN LET saved_seconds == cfg.target_seconds * duration_seconds
                    bonus == IntTimes(saved_seconds, cfg.bonus_per_second)
                IN  Min(bonus, cfg.max_bonus)
           ELSE 0

CalculateStreakBonus_AfterUpdate(statsRow, xp_calc) ==
  LET cfg == xp_calc.streak_bonus
  IN  IF ~cfg.present THEN 0
      ELSE Min((statsRow.current_streak + 1) * cfg.bonus_per_day, cfg.max_bonus)

(* XPService._calculate_streak_bonus *)
CalculateStreakBonus(statsRow, xp_calc) ==
  LET cfg == xp_calc.streak_bonus
  IN  IF ~cfg.present THEN 0
      ELSE IF ~statsRow.exists THEN 0
      ELSE Min(statsRow.current_streak * cfg.bonus_per_day, cfg.max_bonus)

(* The custom-stats merge of update_user_game_stats for the one key of the
   model: a numeric new value is added to the stored value (default 0), which
   raises TypeError on a stored non-numeric value; any other new value
   overwrites. *)
MergeRaises(stored, value) == value.present /\ value.num /\ stored.present /\ ~stored.num
MergeCustom(stored, value) ==
  IF ~value.present THEN stored
  ELSE IF value.num THEN Num((IF stored.present THEN stored.v ELSE 0) + value.v)
  ELSE value

(* The streak after a completion. *)
NextStreak(row, t) ==
  IF row.last_played_at # NULL
  THEN LET days_since == (t - row.last_played_at) \div DayLen
       IN  IF days_since = 1 THEN row.current_streak + 1
           ELSE IF days_since > 1 THEN 1
           ELSE row.current_streak
  ELSE 1

(* The incremental mean of update_user_game_stats. *)
NextAverage(average, games_completed, score) ==
  IF average[1] = 0 THEN Rat(score, 1)
  ELSE Rat(average[1] * (games_completed - 1) + score * average[2],
           average[2] * games_completed)

(* XPService.update_user_game_stats: the row after the update, and whether
   the update raised. *)
UpdateUserGameStats(row, session, t) ==
  LET s0 == IF row.exists THEN row ELSE NewStats(t)
      gc == IF session.completed THEN s0.games_completed + 1 ELSE s0.games_completed
      streak == NextStreak(s0, t)
      s1 == [s0 EXCEPT !.games_played = @ + 1,
                       !.games_completed = gc,
                       !.total_xp_earned = @ + session.xp_earned,
                       !.current_streak = streak,
                       !.best_streak = Max(@, streak),
                       !.last_played_at = t]
      s2 == [s1 EXCEPT !.custom_stats = MergeCustom(@, session.final_stats)]
      s3 == IF session.score # 0
            THEN [s2 EXCEPT !.best_score = Max(@, session.score),
                            !.average_score = NextAverage(@, gc, session.score)]
            ELSE s2
  IN  [raised |-> MergeRaises(s0.custom_stats, session.final_stats), row |-> s3]

(* XPService.process_session_completion: the parts of the grant (the meta
   of its transaction) and their sum. *)
CompletionMeta(db, session) ==
  LET xp_calc == XpCalculation[session.game_id]
  IN  [base_xp |-> xp_calc.base,
       score_xp |-> IF xp_calc.score_multiplier[1] # 0
                    THEN IntTimes(session.score, xp_calc.score_multiplier) ELSE 0,
       time_bonus |-> CalculateTimeBonus(session.duration_seconds, xp_calc),
       streak_bonus |-> CalculateStreakBonus(db.stats[session.user_id][session.game_id],
                                             xp_calc)]

CompletionXp(db, session) ==
  LET m == CompletionMeta(db, session)
  IN  m.base_xp + m.score_xp + m.time_bonus + m.streak_bonus

ProcessSessionCompletion(db, sid, t) ==
  IF sid \notin DOMAIN db.sessions \/ ~db.sessions[sid].completed
  THEN [db |-> db, res |-> NoAward, raised |-> FALSE]
  ELSE LET session == db.sessions[sid]
           total_xp == CompletionXp(db, session)
           a == AwardXp(db, session.user_id, total_xp, GAME_COMPLETION,
                        session.game_id, sid, "none")
           s1 == [session EXCEPT !.xp_earned = total_xp]
           u == UpdateUserGameStats(a.db.stats[session.user_id][session.game_id], s1, t)
       IN  IF u.raised
           THEN [db |-> a.db, res |-> a.res, raised |-> TRUE]
           ELSE [db |-> [a.db EXCEPT !.sessions[sid] = s1,
                                     !.stats[session.user_id][session.game_id] = u.row],
                 res |-> a.res, raised |-> FALSE]

(* ---------------------------- achievements ---------------------------- *)
(* UserGameStats.query.filter_by(user_id, game_id).first(): no row for a
   null game id. *)
StatsFor(db, user_id, game_id) ==
  IF game_id \in Games THEN db.stats[user_id][game_id] ELSE NoStats

Pct(current, required) == Min(100, (current * 100) \div required)

NotMet(current, required) ==
  [raised |-> FALSE, is_unlocked |-> FALSE,
   progress |-> [current |-> current, required |-> required, has_pct |-> FALSE,
                 percentage |-> 0]]
Compared(current, required) ==
  IF required = 0
  THEN [raised |-> TRUE, is_unlocked |-> FALSE, progress |-> NoProgress]
  ELSE [raised |-> FALSE, is_unlocked |-> current >= required,
        progress |-> [current |-> current, required |-> required, has_pct |-> TRUE,
                      percentage |-> Pct(current, required)]]

(* AchievementService._check_requirement for a requirement of the given
   type; stat_value is the value of the named stat, required the threshold,
   score or days of the rule. *)
CheckStatThreshold(required) ==
  IF required # 0
  THEN NotMet(0, 0)
  ELSE [raised |-> TRUE, is_unlocked |-> FALSE, progress |-> NoProgress]

CheckCustomStat(statsRow, required) ==
  IF ~statsRow.exists \/ ~statsRow.custom_stats.present
  THEN NotMet(0, required)
  ELSE IF ~statsRow.custom_stats.num
       THEN [raised |-> TRUE, is_unlocked |-> FALSE, progress |-> NoProgress]
       ELSE Compared(statsRow.custom_stats.v, required)

CheckScoreThreshold(statsRow, required) ==
  IF ~statsRow.exists THEN NotMet(0, required)
  ELSE Compared(statsRow.best_score, required)

CheckStreak(statsRow, required) ==
  IF ~statsRow.exists THEN NotMet(0, required)
  ELSE Compared(statsRow.current_streak, required)

CheckRequirement(db, user_id, req, game_id) ==
  CASE req.type = "stat_threshold" -> CheckStatThreshold(req.required)
    [] req.type = "custom_stat" ->
         CheckCustomStat(StatsFor(db, user_id, game_id), req.required)
    [] req.type = "score_threshold" ->
         CheckScoreThreshold(StatsFor(db, user_id, game_id), req.required)
    [] req.type = "streak" -> CheckStreak(StatsFor(db, user_id, game_id), req.required)
    [] OTHER -> [raised |-> FALSE, is_unlocked |-> FALSE, progress |-> NoProgress]

(* The achievements the loop of check_achievements runs over: bound only on
   the branch without a game id. *)
AchievementsQueried(game_id) ==
  IF game_id # NoGame THEN {}
  ELSE {a \in Achievements : AchievementRow[a].is_active /\ AchievementRow[a].game_id = NoGame}

AlreadyUnlocked_Never(row) == FALSE

(* "if user_achievement and user_achievement.unlocked_at: continue" *)
AlreadyUnlocked(row) == row.exists /\ row.unlocked_at # NULL

(* The tracking row after one evaluation: created with the column default of
   unlocked_at or updated in place, and stamped when the requirement is met. *)
EvaluatedRow(row, is_unlocked, progress, t) ==
  [exists |-> TRUE, progress |-> progress,
   unlocked_at |-> IF is_unlocked THEN t
                   ELSE IF row.exists THEN row.unlocked_at ELSE ImportTime,
   rows |-> IF row.exists THEN row.rows ELSE 1]

NoneReturned == [is_none |-> TRUE, list |-> {}]

(* One iteration of the loop of check_achievements on achievement a, up to
   its commit and return. *)
EvaluateAchievement(db, user_id, a, game_id, t) ==
  LET ach == AchievementRow[a]
      c == CheckRequirement(db, user_id, ach, game_id)
      row == EvaluatedRow(db.ua[user_id][a], c.is_unlocked, c.progress, t)
      db1 == [db EXCEPT !.ua[user_id][a] = row,
                        !.unlockCount[a] = IF c.is_unlocked THEN @ + 1 ELSE @]
      db2 == IF c.is_unlocked /\ ach.xp_reward > 0
             THEN AwardXp(db1, user_id, ach.xp_reward, ACHIEVEMENT, game_id, 0, a).db
             ELSE db1
  IN  IF c.raised
      THEN [db |-> db, raised |-> TRUE, value |-> NoneReturned, evaluated |-> {a}]
      ELSE [db |-> db2, raised |-> FALSE,
            value |-> [is_none |-> FALSE, list |-> IF c.is_unlocked THEN {a} ELSE {}],
            evaluated |-> {a}]

(* A variant that evaluates every queried achievement again and stamps the
   row at each evaluation. *)
CheckAchievements_Restamp(db, user_id, game_id, t) ==
  LET todo == AchievementsQueried(game_id)
      stamped(o, a) == [o EXCEPT !.db.ua[user_id][a].unlocked_at = t]
  IN  IF todo = {}
      THEN {[db |-> db, raised |-> FALSE, value |-> NoneReturned, evaluated |-> {}]}
      ELSE {LET o == EvaluateAchievement(db, user_id, a, game_id, t)
            IN  IF o.raised THEN o ELSE stamped(o, a) : a \in todo}

(* AchievementService.check_achievements: the possible outcomes of one call.
   The query has no ORDER BY, so any achievement that is not skipped may be
   the first one the loop evaluates; the loop returns at the end of that
   iteration. *)
CheckAchievements(db, user_id, game_id, t) ==
  LET todo == {a \in AchievementsQueried(game_id) : ~AlreadyUnlocked(db.ua[user_id][a])}
  IN  IF todo = {}
      THEN {[db |-> db, raised |-> FALSE, value |-> NoneReturned, evaluated |-> {}]}
      ELSE {EvaluateAchievement(db, user_id, a, game_id, t) : a \in todo}

(* ---------------------------- leaderboards ---------------------------- *)
NoScore == [qualifies |-> FALSE, score |-> 0]
Score(v) == [qualifies |-> TRUE, score |-> v]

(* LeaderboardService._calculate_score; min_games defaults to 0, and to 5
   for average_score (whose score is the integer part of the mean here). *)
MinGames_Ungated(lb, default) == 0

MinGames(lb, default) == IF lb.has_min THEN lb.min_games ELSE default
DefaultMinGames == 0
DefaultMinGamesAverage == 5

CalculateScore(db, user_id, game_id, lb) ==
  LET st == StatsFor(db, user_id, game_id)
  IN  CASE lb.type = "total_xp" ->
             IF user_id \in Users THEN Score(db.users[user_id].total_xp) ELSE NoScore
        [] lb.type = "game_xp" ->
             IF ~st.exists THEN NoScore
             ELSE IF st.games_completed < MinGames(lb, DefaultMinGames) THEN NoScore
             ELSE Score(st.total_xp_earned)
        [] lb.type = "best_score" ->
             IF ~st.exists THEN NoScore
             ELSE IF st.games_completed < MinGames(lb, DefaultMinGames) THEN NoScore
             ELSE Score(st.best_score)
        [] lb.type = "average_score" ->
             IF ~st.exists THEN NoScore
             ELSE IF st.games_completed < MinGames(lb, DefaultMinGamesAverage) THEN NoScore
             ELSE Score(st.average_score[1] \div st.average_score[2])
        [] lb.type = "games_completed" ->
             IF st.exists THEN Score(st.games_completed) ELSE NoScore
        [] OTHER -> NoScore

(* LeaderboardService._get_period_boundaries: time_period is a member of
   LeaderboardTimePeriodEnum and is compared with lower-case strings. *)
AllTimeAnchor == 0
PeriodStart(time_period, t) ==
  CASE time_period = "all_time" -> AllTimeAnchor
    [] time_period = "daily" -> t - (t % DayLen)
    [] time_period = "weekly" -> t - (t % (7 * DayLen))
    [] time_period = "monthly" -> t - (t % (30 * DayLen))
    [] OTHER -> t

Group(E, leaderboard_id, period_start) ==
  {e \in E : e.leaderboard_id = leaderboard_id /\ e.period_start = period_start}

RankOrders_Ascending(group) ==
  {f \in [group -> 1 .. Cardinality(group)] :
     /\ \A e1, e2 \in group : e1 # e2 => f[e1] # f[e2]
     /\ \A e1, e2 \in group : e1.score_value < e2.score_value => f[e1] < f[e2]}

(* The rank assignments "ORDER BY score_value DESC" allows: the order among
   equal scores is the database's choice. *)
RankOrders(group) ==
  {f \in [group -> 1 .. Cardinality(group)] :
     /\ \A e1, e2 \in group : e1 # e2 => f[e1] # f[e2]
     /\ \A e1, e2 \in group : e1.score_value > e2.score_value => f[e1] < f[e2]}

(* LeaderboardService._recalculate_ranks: the possible entry tables. *)
RecalculateRanks(E, leaderboard_id, period_start) ==
  LET group == Group(E, leaderboard_id, period_start)
  IN  {(E \ group) \cup {[e EXCEPT !.rank = f[e]] : e \in group} : f \in RankOrders(group)}

(* The games_played snapshot of an entry of a game-scoped leaderboard: the
   statistics are looked up with game_id = leaderboard.game, the Game row,
   which equals no game id, so no row is found. *)
GamesPlayedSnapshot(db, user_id, lb) ==
  LET st == StatsFor(db, user_id, "game-object") IN IF st.exists THEN st.games_completed ELSE 0

(* LeaderboardService._update_leaderboard_entry: the possible entry tables. *)
UpdateLeaderboardEntry(db, E, l, user_id, game_id, t) ==
  LET lb == LeaderboardRow[l]
      sc == CalculateScore(db, user_id, game_id, lb)
      period_start == PeriodStart(lb.time_period, t)
      old == {e \in Group(E, l, period_start) : e.user_id = user_id}
      new == IF old = {}
             THEN {[leaderboard_id |-> l, user_id |-> user_id,
                    period_start |-> period_start, score_value |-> sc.score,
                    rank |-> 0, games_played |-> GamesPlayedSnapshot(db, user_id, lb),
                    last_updated |-> t]}
             ELSE {[e EXCEPT !.score_value = sc.score, !.last_updated = t,
                             !.games_played = GamesPlayedSnapshot(db, user_id, lb)]
                   : e \in old}
  IN  IF ~sc.qualifies THEN {E}
      ELSE RecalculateRanks((E \ old) \cup new, l, period_start)

(* The leaderboards update_user_rakings passes to _update_leaderboard_entry. *)
LeaderboardsUpdated(game_id) ==
  {l \in Leaderboards :
     /\ LeaderboardRow[l].is_active
     /\ game_id # NoGame =>
          (LeaderboardRow[l].game_id = game_id \/ LeaderboardRow[l].game_id = NoGame)
     /\ LeaderboardRow[l].game_id # NoGame}

(* LeaderboardService.update_user_rakings: the possible entry tables. *)
RECURSIVE UpdateEach(_, _, _, _, _)
UpdateEach(db, E, lbs, user_id, t) ==
  IF lbs = {} THEN {E}
  ELSE LET l == CHOOSE x \in lbs : TRUE
       IN  UNION {UpdateEach(db, E1, lbs \ {l}, user_id, t)
                  : E1 \in UpdateLeaderboardEntry(db, E, l, user_id,
                                                  LeaderboardRow[l].game_id, t)}

UpdateUserRankings(db, user_id, game_id, t) ==
  UpdateEach(db, db.entries, LeaderboardsUpdated(game_id), user_id, t)

(* ----------------------------- operations ----------------------------- *)
Result(op, error) ==
  [op |-> op, error |-> error, sid |-> 0, user_id |-> "none", game_id |-> NoGame,
   leveled_up |-> FALSE, unlocked |-> NoneReturned, evaluated |-> {}]

Reqs == {"r1", "r2"}
IdleReq ==
  [pc |-> "idle", sid |-> 0, final_score |-> 0, final_stats |-> Absent,
   user_id |-> "none", achievement |-> "none", had_row |-> FALSE,
   amount |-> 0, user |-> NewUser, row |-> NoStats,
   lbs |-> {}, lb |-> "none", period_start |-> 0, score_value |-> 0, found |-> {},
   group |-> {}]
NoInput == [type |-> "none", current |-> 0, required |-> 0, scoped |-> FALSE]
NoOutput == [done |-> FALSE, raised |-> FALSE, is_unlocked |-> FALSE, progress |-> NoProgress,
             value |-> 0,
             meta |-> [base_xp |-> 0, score_xp |-> 0, time_bonus |-> 0, streak_bonus |-> 0]]

InitTables ==
  /\ sessions = <<>>
  /\ playCount = [g \in Games |-> 0]
  /\ users = [u \in Users |-> NewUser]
  /\ txs = <<>>
  /\ stats = [u \in Users |-> [g \in Games |-> NoStats]]
  /\ unlockCount = [a \in Achievements |-> 0]
  /\ ua = [u \in Users |-> [a \in Achievements |-> NoUA]]
  /\ entries = {}
  /\ result = Result("init", ErrNone)
  /\ reqs = [r \in Reqs |-> IdleReq]

InitRows ==
  /\ now = 1
  /\ InitTables

Init ==
  /\ InitRows
  /\ fin = NoInput
  /\ fout = NoOutput

(* The requirement rules and stat values _check_requirement is applied to. *)
RequirementTypes == {"stat_threshold", "custom_stat", "score_threshold", "streak"}
Thresholds == {0, 1, 50, 100}
StatValues == {0, 1, 50, 99, 100, 120}
RequirementInputs ==
  [type : RequirementTypes, current : StatValues, required : Thresholds, scoped : BOOLEAN]

(* The durations and time_bonus configurations _calculate_time_bonus is
   applied to. *)
MaxDuration == 70
TimeBonusConfigs ==
  {NoBlock,
   XpCalculation["g1"].time_bonus,
   [present |-> TRUE, target_seconds |-> 60, bonus_per_second |-> <<1, 2>>,
    bonus_per_day |-> 0, max_bonus |-> 50]}
TimeBonusInputs ==
  [type : {"time_bonus"}, duration_seconds : 0 .. MaxDuration, cfg : TimeBonusConfigs]

(* The completed sessions and statistics rows process_session_completion is
   applied to: the streak of the row, whether the row exists, and whether it
   was last played today or a day ago. *)
MaxStreak == 25
MaxElapsed == 3
CompletionInputs ==
  [type : {"completion"}, game : Games, score : Scores,
   duration_seconds : 0 .. MaxElapsed, has_stats : BOOLEAN,
   current_streak : 0 .. MaxStreak, played_today : BOOLEAN]

InitCompletion ==
  /\ now = DayLen + MaxElapsed
  /\ InitTables
  /\ fin \in CompletionInputs
  /\ fout = NoOutput

InitTimeBonus ==
  /\ InitRows
  /\ fin \in TimeBonusInputs
  /\ fout = NoOutput

InitRequirement ==
  /\ InitRows
  /\ fin \in RequirementInputs
  /\ fout = NoOutput

Commit(db) ==
  /\ sessions' = db.sessions
  /\ users' = db.users
  /\ txs' = db.txs
  /\ stats' = db.stats
  /\ unlockCount' = db.unlockCount
  /\ ua' = db.ua
  /\ entries' = db.entries

Unchanged == UNCHANGED <<sessions, users, txs, stats, unlockCount, ua, entries>>

(* The clock advances between (never inside) operations. *)
Tick ==
  /\ now < MaxTime
  /\ now' = now + 1
  /\ UNCHANGED <<sessions, playCount, users, txs, stats, unlockCount, ua, entries,
                 result, aux>>

StartSession_CountsFailed(game_id, user_id, initial_state) ==
  /\ UNCHANGED <<now, users, txs, stats, unlockCount, ua, entries, aux>>
  /\ IF game_id \notin Games \/ ~GameActive[game_id]
     THEN /\ result' = Result("start", ErrGame)
          /\ UNCHANGED <<sessions, playCount>>
     ELSE /\ playCount' = [playCount EXCEPT ![game_id] = @ + 1]
          /\ IF user_id \notin Users
             THEN /\ result' = Result("start", ErrUser)
                  /\ UNCHANGED sessions
             ELSE /\ Len(sessions) < MaxSessions
                  /\ sessions' = Append(sessions,
                                        NewSession(game_id, user_id, initial_state, now))
                  /\ result' = [Result("start", ErrNone) EXCEPT !.sid = Len(sessions) + 1]

(* SessionService.start_session *)
StartSession(game_id, user_id, initial_state) ==
  /\ UNCHANGED <<now, users, txs, stats, unlockCount, ua, entries, aux>>
  /\ IF game_id \notin Games \/ ~GameActive[game_id]
     THEN /\ result' = Result("start", ErrGame)
          /\ UNCHANGED <<sessions, playCount>>
     ELSE IF user_id \notin Users
     THEN /\ result' = Result("start", ErrUser)
          /\ UNCHANGED <<sessions, playCount>>
     ELSE /\ Len(sessions) < MaxSessions
          /\ sessions' = Append(sessions, NewSession(game_id, user_id, initial_state, now))
          /\ playCount' = [playCount EXCEPT ![game_id] = @ + 1]
          /\ result' = [Result("start", ErrNone) EXCEPT !.sid = Len(sessions) + 1]

(* SessionService.update_session_state *)
UpdateSessionState(sid, new_state) ==
  /\ UNCHANGED <<now, playCount, users, txs, stats, unlockCount, ua, entries, aux>>
  /\ IF sid \notin DOMAIN sessions
     THEN /\ result' = [Result("update", ErrNotActive) EXCEPT !.sid = sid]
          /\ UNCHANGED sessions
     ELSE /\ sessions' = [sessions EXCEPT ![sid].game_state = new_state]
          /\ result' = [Result("update", ErrNone) EXCEPT !.sid = sid]

NotInProgress_AbandonedOnly(session) == session.status = ABANDONED

(* "if session.status != GameSessionStatusEnum.IN_PROGRESS" of complete_session *)
NotInProgress(session) == session.status # IN_PROGRESS

(* The session row complete_session commits before the XP stage. *)
CompletedSession(session, final_score, final_stats, t) ==
  [session EXCEPT !.status = COMPLETED, !.completed = TRUE, !.score = final_score,
                  !.final_stats = final_stats,
                  !.duration_seconds = t - session.started_at, !.completed_at = t]

CompleteSession_RanksFirst(sid, final_score, final_stats) ==
  /\ UNCHANGED <<now, playCount, aux>>
  /\ IF sid \notin DOMAIN sessions
     THEN /\ result' = [Result("complete", ErrSessionNotFound) EXCEPT !.sid = sid]
          /\ Unchanged
     ELSE IF NotInProgress(sessions[sid])
     THEN /\ result' = [Result("complete", ErrNotActive) EXCEPT !.sid = sid]
          /\ Unchanged
     ELSE LET session == CompletedSession(sessions[sid], final_score, final_stats, now)
              db1 == [DB EXCEPT !.sessions[sid] = session]
              p == ProcessSessionCompletion(db1, sid, now)
              done == [Result("complete", ErrNone) EXCEPT !.sid = sid]
          IN  \E E \in UpdateUserRankings(db1, session.user_id, session.game_id, now) :
                \E c \in CheckAchievements(p.db, session.user_id, session.game_id, now) :
                  /\ Commit([c.db EXCEPT !.entries = E])
                  /\ result' = [done EXCEPT !.leveled_up = p.res.leveled_up,
                                            !.unlocked = c.value,
                                            !.evaluated = c.evaluated]

(* SessionService.complete_session *)
CompleteSession(sid, final_score, final_stats) ==
  /\ UNCHANGED <<now, playCount, aux>>
  /\ IF sid \notin DOMAIN sessions
     THEN /\ result' = [Result("complete", ErrSessionNotFound) EXCEPT !.sid = sid]
          /\ Unchanged
     ELSE IF NotInProgress(sessions[sid])
     THEN /\ result' = [Result("complete", ErrNotActive) EXCEPT !.sid = sid]
          /\ Unchanged
     ELSE LET session == CompletedSession(sessions[sid], final_score, final_stats, now)
              db1 == [DB EXCEPT !.sessions[sid] = session]
              p == ProcessSessionCompletion(db1, sid, now)
              done == [Result("complete", ErrNone) EXCEPT !.sid = sid]
          IN  IF p.raised
              THEN /\ Commit(p.db)
                   /\ result' = [done EXCEPT !.error = Raised]
              ELSE IF ~p.res.ok
              THEN /\ Commit(p.db)
                   /\ result' = [done EXCEPT !.error = ErrXP]
              ELSE \E c \in CheckAchievements(p.db, session.user_id, session.game_id, now) :
                     IF c.raised
                     THEN /\ Commit(c.db)
                          /\ result' = [done EXCEPT !.error = Raised]
                     ELSE \E E \in UpdateUserRankings(c.db, session.user_id,
                                                      session.game_id, now) :
                            /\ Commit([c.db EXCEPT !.entries = E])
                            /\ result' = [done EXCEPT !.leveled_up = p.res.leveled_up,
                                            !.unlocked = c.value,
                                            !.evaluated = c.evaluated]

AbandonSession_Penalises(sid) ==
  /\ UNCHANGED <<now, playCount, stats, unlockCount, ua, entries, aux>>
  /\ IF sid \notin DOMAIN sessions
     THEN /\ result' = [Result("abandon", ErrSessionNotFound) EXCEPT !.sid = sid]
          /\ UNCHANGED <<sessions, users, txs>>
     ELSE LET a == AwardXp(DB, sessions[sid].user_id, -5, "PENALTY", sessions[sid].game_id,
                           sid, "none")
          IN  /\ sessions' = [sessions EXCEPT ![sid].status = ABANDONED,
                                               ![sid].completed_at = now]
              /\ users' = a.db.users
              /\ txs' = a.db.txs
              /\ result' = [Result("abandon", ErrNone) EXCEPT !.sid = sid]

(* SessionService.abandon_session *)
AbandonSession(sid) ==
  /\ UNCHANGED <<now, playCount, users, txs, stats, unlockCount, ua, entries, aux>>
  /\ IF sid \notin DOMAIN sessions
     THEN /\ result' = [Result("abandon", ErrSessionNotFound) EXCEPT !.sid = sid]
          /\ UNCHANGED sessions
     ELSE /\ sessions' = [sessions EXCEPT ![sid].status = ABANDONED,
                                          ![sid].completed_at = now]
          /\ result' = [Result("abandon", ErrNone) EXCEPT !.sid = sid]

(* AchievementService.check_achievements called on its own. *)
CheckAchievementsCall(user_id, game_id) ==
  /\ UNCHANGED <<now, playCount, aux>>
  /\ \E c \in CheckAchievements(DB, user_id, game_id, now) :
       /\ Commit(c.db)
       /\ result' = [Result("check", IF c.raised THEN Raised ELSE ErrNone)
                       EXCEPT !.user_id = user_id, !.game_id = game_id,
                              !.unlocked = c.value, !.evaluated = c.evaluated]

(* AchievementService._check_requirement called on its own, for user u1 whose
   stat named by the rule (on the user row, and on the statistics row of g1)
   has the value fin.current. *)
CheckRequirementCall ==
  /\ ~fout.done
  /\ UNCHANGED <<now, playCount, result, reqs, fin>>
  /\ Unchanged
  /\ LET row == [NewStats(now) EXCEPT !.games_completed = fin.current,
                                      !.best_score = fin.current,
                                      !.current_streak = fin.current,
                                      !.custom_stats = Num(fin.current)]
         db == [DB EXCEPT !.users["u1"].total_xp = fin.current,
                          !.stats["u1"]["g1"] = row]
         c == CheckRequirement(db, "u1", [type |-> fin.type, required |-> fin.required],
                               IF fin.scoped THEN "g1" ELSE NoGame)
     IN  fout' = [NoOutput EXCEPT !.done = TRUE, !.raised = c.raised,
                                  !.is_unlocked = c.is_unlocked, !.progress = c.progress]

(* XPService._calculate_time_bonus called on its own. *)
CalculateTimeBonusCall ==
  /\ ~fout.done
  /\ UNCHANGED <<now, playCount, result, reqs, fin>>
  /\ Unchanged
  /\ fout' = [NoOutput EXCEPT !.done = TRUE,
                              !.value = CalculateTimeBonus(fin.duration_seconds,
                                                           [time_bonus |-> fin.cfg])]

(* XPService.process_session_completion called on a session that
   complete_session has just committed as COMPLETED. *)
ProcessSessionCompletionCall ==
  /\ ~fout.done
  /\ UNCHANGED <<now, playCount, result, reqs, fin>>
  /\ LET session == CompletedSession(
                      NewSession(fin.game, "u1", EmptyBlob, now - fin.duration_seconds),
                      fin.score, Absent, now)
         row == IF fin.has_stats
                THEN [NewStats(IF fin.played_today THEN now ELSE now - DayLen)
                        EXCEPT !.games_played = 1, !.games_completed = 1,
                               !.current_streak = fin.current_streak,
                               !.best_streak = fin.current_streak]
                ELSE NoStats
         db == [DB EXCEPT !.sessions = <<session>>, !.stats["u1"][fin.game] = row]
         p == ProcessSessionCompletion(db, 1, now)
     IN  /\ Commit(p.db)
         /\ fout' = [NoOutput EXCEPT !.done = TRUE, !.raised = p.raised,
                                     !.value = p.res.xp_earned,
                                     !.meta = CompletionMeta(db, session)]

(* LeaderboardService._recalculate_ranks called on its own. *)
RecalculateRanksCall(leaderboard_id, period_start) ==
  /\ UNCHANGED <<now, playCount, sessions, users, txs, stats, unlockCount, ua, aux>>
  /\ entries' \in RecalculateRanks(entries, leaderboard_id, period_start)
  /\ result' = Result("rerank", ErrNone)

(* XPService.award_xp called on its own (a penalty). *)
PenaltyAmount == -5
AwardCall(user_id) ==
  /\ UNCHANGED <<now, playCount, aux>>
  /\ Cardinality({i \in DOMAIN txs : txs[i].type = "PENALTY"}) < MaxAwards
  /\ LET a == AwardXp(DB, user_id, PenaltyAmount, "PENALTY", NoGame, 0, "none")
     IN  /\ Commit(a.db)
         /\ result' = [Result("award", IF a.res.ok THEN ErrNone ELSE ErrUser)
                         EXCEPT !.user_id = user_id, !.leveled_up = a.res.leveled_up]

UniqueUserAchievement_Missing(row) == TRUE

(* UniqueConstraint('user_id', 'achievement_id'): a row of the pair can be
   inserted only while the pair has none. *)
UniqueUserAchievement(row) == ~row.exists

(* check_achievements(user_id) run by request r in two steps.  First step:
   the achievements are queried and the tracking row of the first one that
   is not skipped is looked up. *)
AchBegin(r, user_id) ==
  /\ reqs[r].pc = "idle"
  /\ UNCHANGED <<now, playCount, fin, fout>>
  /\ Unchanged
  /\ LET todo == {a \in AchievementsQueried(NoGame) : ~AlreadyUnlocked(ua[user_id][a])}
     IN  IF todo = {}
         THEN /\ result' = [Result("check", ErrNone) EXCEPT !.user_id = user_id]
              /\ UNCHANGED reqs
         ELSE \E a \in todo :
                /\ reqs' = [reqs EXCEPT ![r] = [IdleReq EXCEPT !.pc = "looked-up",
                                                               !.user_id = user_id,
                                                               !.achievement = a,
                                                               !.had_row = ua[user_id][a].exists]]
                /\ UNCHANGED result

(* Second step: the requirement is computed, the row is created or updated,
   and the call commits and returns.  The INSERT of a row the request did
   not find fails on the unique constraint when the pair has a row by now. *)
AchCommit(r) ==
  /\ reqs[r].pc = "looked-up"
  /\ UNCHANGED <<now, playCount, fin, fout>>
  /\ reqs' = [reqs EXCEPT ![r] = IdleReq]
  /\ LET user_id == reqs[r].user_id
         a == reqs[r].achievement
         stored == ua[user_id][a]
         seen == IF reqs[r].had_row THEN stored ELSE NoUA
         o == EvaluateAchievement([DB EXCEPT !.ua[user_id][a] = seen], user_id, a, NoGame, now)
         res == [Result("check", ErrNone) EXCEPT !.user_id = user_id, !.evaluated = {a}]
     IN  IF o.raised \/ (~reqs[r].had_row /\ ~UniqueUserAchievement(stored))
         THEN /\ Unchanged
              /\ result' = [res EXCEPT !.error = Raised]
         ELSE /\ Commit([o.db EXCEPT !.ua[user_id][a].rows =
                                       stored.rows + (IF reqs[r].had_row THEN 0 ELSE 1)])
              /\ result' = [res EXCEPT !.unlocked = o.value]

(* complete_session run by request r in steps, each a read or a committed
   transaction, so that the calls of two requests interleave.  First step:
   the session is loaded and its status checked. *)
ReqBegin(r, sid, final_score, final_stats) ==
  /\ reqs[r].pc = "idle"
  /\ UNCHANGED <<now, playCount, fin, fout>>
  /\ Unchanged
  /\ IF sid \notin DOMAIN sessions
     THEN /\ result' = [Result("complete", ErrSessionNotFound) EXCEPT !.sid = sid]
          /\ UNCHANGED reqs
     ELSE IF NotInProgress(sessions[sid])
     THEN /\ result' = [Result("complete", ErrNotActive) EXCEPT !.sid = sid]
          /\ UNCHANGED reqs
     ELSE /\ reqs' = [reqs EXCEPT ![r] = [IdleReq EXCEPT !.pc = "checked", !.sid = sid,
                                                         !.final_score = final_score,
                                                         !.final_stats = final_stats]]
          /\ UNCHANGED result

(* The first step of a request for a session that no request in flight is
   completing. *)
ReqBeginDistinct(r, sid, final_score, final_stats) ==
  /\ \A q \in Reqs : reqs[q].pc # "idle" => reqs[q].sid # sid
  /\ ReqBegin(r, sid, final_score, final_stats)

(* Second step: the session is written as COMPLETED and committed. *)
ReqCommit(r) ==
  /\ reqs[r].pc = "checked"
  /\ UNCHANGED <<now, playCount, fin, fout, result>>
  /\ Commit([DB EXCEPT !.sessions[reqs[r].sid] =
                CompletedSession(@, reqs[r].final_score, reqs[r].final_stats, now)])
  /\ reqs' = [reqs EXCEPT ![r].pc = "committed"]

(* Third step: process_session_completion. *)
ReqProcess(r) ==
  /\ reqs[r].pc = "committed"
  /\ UNCHANGED <<now, playCount, fin, fout>>
  /\ LET p == ProcessSessionCompletion(DB, reqs[r].sid, now)
     IN  /\ Commit(p.db)
         /\ IF p.raised \/ ~p.res.ok
            THEN /\ reqs' = [reqs EXCEPT ![r] = IdleReq]
                 /\ result' = [Result("complete", IF p.raised THEN Raised ELSE ErrXP)
                                 EXCEPT !.sid = reqs[r].sid]
            ELSE /\ reqs' = [reqs EXCEPT ![r].pc = "processed"]
                 /\ UNCHANGED result

(* The UPDATE a commit issues for a loaded row: the columns whose value the
   request changed are written, the others keep what the database holds. *)
WriteChanged(stored, loaded, changed) ==
  [f \in DOMAIN changed |-> IF changed[f] # loaded[f] THEN changed[f] ELSE stored[f]]

(* process_session_completion in four steps.  The amount is computed and
   award_xp loads the user. *)
ReqAwardRead(r) ==
  /\ reqs[r].pc = "committed"
  /\ UNCHANGED <<now, playCount, fin, fout>>
  /\ Unchanged
  /\ LET session == sessions[reqs[r].sid]
     IN  IF ~session.completed
         THEN /\ reqs' = [reqs EXCEPT ![r] = IdleReq]
              /\ result' = [Result("complete", ErrXP) EXCEPT !.sid = reqs[r].sid]
         ELSE /\ reqs' = [reqs EXCEPT ![r].pc = "award-read",
                                      ![r].amount = CompletionXp(DB, session),
                                      ![r].user = users[session.user_id]]
              /\ UNCHANGED result

(* award_xp adds the transaction and the XP to the user it loaded, and
   commits. *)
ReqAwardWrite(r) ==
  /\ reqs[r].pc = "award-read"
  /\ UNCHANGED <<now, playCount, fin, fout, result>>
  /\ LET session == sessions[reqs[r].sid]
         u == session.user_id
         a == AwardXp([DB EXCEPT !.users[u] = reqs[r].user], u, reqs[r].amount,
                      GAME_COMPLETION, session.game_id, reqs[r].sid, "none")
     IN  /\ Commit([a.db EXCEPT !.users[u] = WriteChanged(users[u], reqs[r].user, @)])
         /\ reqs' = [reqs EXCEPT ![r].pc = "awarded"]

(* update_user_game_stats loads the statistics row of the (user, game). *)
ReqStatsRead(r) ==
  /\ reqs[r].pc = "awarded"
  /\ UNCHANGED <<now, playCount, fin, fout, result>>
  /\ Unchanged
  /\ LET session == sessions[reqs[r].sid]
     IN  reqs' = [reqs EXCEPT ![r].pc = "stats-read",
                              ![r].row = stats[session.user_id][session.game_id]]

(* update_user_game_stats updates the row it loaded, or adds a new one, and
   process_session_completion commits.  UserGameStats has no unique
   constraint in force (its __table_args__ is not a tuple), so a row added
   beside one that another request added meanwhile is stored too, and later
   .first() queries return either of the two. *)
ReqStatsWrite(r) ==
  /\ reqs[r].pc = "stats-read"
  /\ UNCHANGED <<now, playCount, fin, fout>>
  /\ LET sid == reqs[r].sid
         s1 == [sessions[sid] EXCEPT !.xp_earned = reqs[r].amount]
         stored == stats[s1.user_id][s1.game_id]
         u == UpdateUserGameStats(reqs[r].row, s1, now)
     IN  IF u.raised
         THEN /\ Unchanged
              /\ reqs' = [reqs EXCEPT ![r] = IdleReq]
              /\ result' = [Result("complete", Raised) EXCEPT !.sid = sid]
         ELSE /\ \E row \in (IF reqs[r].row.exists
                              THEN {WriteChanged(stored, reqs[r].row, u.row)}
                              ELSE IF stored.exists
                                   THEN {[stored EXCEPT !.rows = @ + 1],
                                         [u.row EXCEPT !.rows = stored.rows + 1]}
                                   ELSE {u.row}) :
                   Commit([DB EXCEPT !.sessions[sid] = s1,
                                     !.stats[s1.user_id][s1.game_id] = row])
              /\ reqs' = [reqs EXCEPT ![r].pc = "processed"]
              /\ UNCHANGED result

(* Last step: check_achievements and update_user_rakings, and the return. *)
ReqFinish(r) ==
  /\ reqs[r].pc = "processed"
  /\ UNCHANGED <<now, playCount, fin, fout>>
  /\ reqs' = [reqs EXCEPT ![r] = IdleReq]
  /\ LET session == sessions[reqs[r].sid]
     IN  \E c \in CheckAchievements(DB, session.user_id, session.game_id, now) :
           IF c.raised
           THEN /\ Commit(c.db)
                /\ result' = [Result("complete", Raised) EXCEPT !.sid = reqs[r].sid]
           ELSE \E E \in UpdateUserRankings(c.db, session.user_id, session.game_id, now) :
                  /\ Commit([c.db EXCEPT !.entries = E])
                  /\ result' = [Result("complete", ErrNone) EXCEPT !.sid = reqs[r].sid,
                                  !.unlocked = c.value, !.evaluated = c.evaluated]

UniqueLeaderboardEntry_Missing(E, l, user_id, period_start) == TRUE

(* UniqueConstraint('leaderboard_id', 'user_id', 'period_start'): an entry
   can be inserted only while the table has none with its key. *)
UniqueLeaderboardEntry(E, l, user_id, period_start) ==
  ~\E e \in Group(E, l, period_start) : e.user_id = user_id

(* The last stages of complete_session in steps.  check_achievements runs,
   and update_user_rakings queries the leaderboards. *)
ReqEvaluate(r) ==
  /\ reqs[r].pc = "processed"
  /\ UNCHANGED <<now, playCount, fin, fout>>
  /\ LET session == sessions[reqs[r].sid]
     IN  \E c \in CheckAchievements(DB, session.user_id, session.game_id, now) :
           /\ Commit(c.db)
           /\ IF c.raised
              THEN /\ reqs' = [reqs EXCEPT ![r] = IdleReq]
                   /\ result' = [Result("complete", Raised) EXCEPT !.sid = reqs[r].sid]
              ELSE /\ reqs' = [reqs EXCEPT ![r].pc = "ranking",
                                           ![r].user_id = session.user_id,
                                           ![r].lbs = LeaderboardsUpdated(session.game_id)]
                   /\ UNCHANGED result

(* _update_leaderboard_entry for the next leaderboard: the score and the
   period are computed and the user's entry is looked up. *)
ReqRankFind(r) ==
  /\ reqs[r].pc = "ranking"
  /\ reqs[r].lbs # {}
  /\ UNCHANGED <<now, playCount, fin, fout, result>>
  /\ Unchanged
  /\ LET l == CHOOSE x \in reqs[r].lbs : TRUE
         lb == LeaderboardRow[l]
         sc == CalculateScore(DB, reqs[r].user_id, lb.game_id, lb)
         period_start == PeriodStart(lb.time_period, now)
     IN  IF ~sc.qualifies
         THEN reqs' = [reqs EXCEPT ![r].lbs = @ \ {l}]
         ELSE reqs' = [reqs EXCEPT ![r].pc = "found", ![r].lb = l,
                                   ![r].period_start = period_start,
                                   ![r].score_value = sc.score,
                                   ![r].found = {e \in Group(entries, l, period_start) :
                                                   e.user_id = reqs[r].user_id}]

(* The entry is created with rank 0, or the entry found is updated, and the
   change is committed.  The INSERT fails on the unique constraint when the
   key has an entry by now, and the exception ends the request. *)
ReqRankUpsert(r) ==
  /\ reqs[r].pc = "found"
  /\ UNCHANGED <<now, playCount, fin, fout>>
  /\ LET l == reqs[r].lb
         user_id == reqs[r].user_id
         period_start == reqs[r].period_start
         games_played == GamesPlayedSnapshot(DB, user_id, LeaderboardRow[l])
         stored == {e \in Group(entries, l, period_start) : e.user_id = user_id}
         new == IF reqs[r].found = {}
                THEN {[leaderboard_id |-> l, user_id |-> user_id,
                       period_start |-> period_start,
                       score_value |-> reqs[r].score_value, rank |-> 0,
                       games_played |-> games_played, last_updated |-> now]}
                ELSE {[e EXCEPT !.score_value = reqs[r].score_value,
                                !.last_updated = now, !.games_played = games_played]
                      : e \in stored}
     IN  IF reqs[r].found = {} /\ ~UniqueLeaderboardEntry(entries, l, user_id, period_start)
         THEN /\ Unchanged
              /\ reqs' = [reqs EXCEPT ![r] = IdleReq]
              /\ result' = [Result("complete", Raised) EXCEPT !.sid = reqs[r].sid]
         ELSE /\ Commit([DB EXCEPT !.entries =
                            (IF reqs[r].found = {} THEN @ ELSE @ \ stored) \cup new])
              /\ reqs' = [reqs EXCEPT ![r].pc = "upserted"]
              /\ UNCHANGED result

(* _recalculate_ranks queries the entries of the group. *)
ReqRankRead(r) ==
  /\ reqs[r].pc = "upserted"
  /\ UNCHANGED <<now, playCount, fin, fout, result>>
  /\ Unchanged
  /\ reqs' = [reqs EXCEPT ![r].pc = "group-read",
                          ![r].group = Group(entries, reqs[r].lb, reqs[r].period_start)]

(* _recalculate_ranks numbers the entries it queried in their order and
   commits: each of those entries whose number differs from the rank it was
   loaded with gets its rank written. *)
ReqRankWrite(r) ==
  /\ reqs[r].pc = "group-read"
  /\ UNCHANGED <<now, playCount, fin, fout, result>>
  /\ reqs' = [reqs EXCEPT ![r].pc = "ranking", ![r].lbs = @ \ {reqs[r].lb},
                          ![r].found = {}, ![r].group = {}]
  /\ \E f \in RankOrders(reqs[r].group) :
       LET Loaded(e) == {x \in reqs[r].group : /\ x.leaderboard_id = e.leaderboard_id
                                               /\ x.user_id = e.user_id
                                               /\ x.period_start = e.period_start}
           Written(e) ==
             IF Loaded(e) = {} THEN e
             ELSE LET x == CHOOSE y \in Loaded(e) : TRUE
                  IN  IF f[x] # x.rank THEN [e EXCEPT !.rank = f[x]] ELSE e
       IN  Commit([DB EXCEPT !.entries = {Written(e) : e \in entries}])

(* complete_session returns once every leaderboard has been handled. *)
ReqReturn(r) ==
  /\ reqs[r].pc = "ranking"
  /\ reqs[r].lbs = {}
  /\ UNCHANGED <<now, playCount, fin, fout>>
  /\ Unchanged
  /\ reqs' = [reqs EXCEPT ![r] = IdleReq]
  /\ result' = [Result("complete", ErrNone) EXCEPT !.sid = reqs[r].sid,
                                                   !.user_id = reqs[r].user_id]

SessionIds == 1 .. MaxSessions

(* Session lifecycle: every outcome of start, and complete and abandon on
   every session id. *)
Next ==
  \/ Tick
  \/ \E g \in GameIds, u \in {"u1", "u0"} : StartSession(g, u, EmptyBlob)
  \/ \E sid \in SessionIds : CompleteSession(sid, 20, Absent)
  \/ \E sid \in SessionIds : AbandonSession(sid)

Spec == Init /\ [][Next]_vars

(* The XP ledger: completions and penalties of two users. *)
NextLedger ==
  \/ \E u \in Users : StartSession("g1", u, EmptyBlob)
  \/ \E sid \in SessionIds, sc \in {0, 20} : CompleteSession(sid, sc, Absent)
  \/ \E u \in UserIds : AwardCall(u)

SpecLedger == Init /\ [][NextLedger]_vars

(* Statistics: completions of one user with every final-stats input. *)
NextStats ==
  \/ Tick
  \/ StartSession("g1", "u1", EmptyBlob)
  \/ \E sid \in SessionIds, sc \in {0, 20}, fs \in FinalStatsInputs : CompleteSession(sid, sc, fs)

SpecStats == Init /\ [][NextStats]_vars

(* Two requests completing sessions at the same time. *)
NextConc ==
  \/ \E u \in Users : StartSession("g1", u, EmptyBlob)
  \/ \E r \in Reqs, sid \in SessionIds : ReqBegin(r, sid, 20, Absent)
  \/ \E r \in Reqs : ReqCommit(r)
  \/ \E r \in Reqs : ReqProcess(r)
  \/ \E r \in Reqs : ReqFinish(r)

SpecConc == Init /\ [][NextConc]_vars

(* Achievements: evaluations with and without a game id, between
   completions. *)
NextAch ==
  \/ Tick
  \/ StartSession("g1", "u1", EmptyBlob)
  \/ \E sid \in SessionIds : CompleteSession(sid, 20, Num(1))
  \/ \E u \in Users, g \in {NoGame, "g1"} : CheckAchievementsCall(u, g)

SpecAch == Init /\ [][NextAch]_vars

(* Ranking: completions of two users with different scores. *)
NextRank ==
  \/ Tick
  \/ \E u \in Users : StartSession("g1", u, EmptyBlob)
  \/ \E sid \in SessionIds, sc \in {20, 40} : CompleteSession(sid, sc, Absent)

SpecRank == Init /\ [][NextRank]_vars

(* Requirement rules: _check_requirement on every input. *)
NextRequirement == CheckRequirementCall

SpecRequirement == InitRequirement /\ [][NextRequirement]_vars

(* Game state: state updates between start, complete and abandon, on every
   session id. *)
NextState ==
  \/ Tick
  \/ StartSession("g1", "u1", EmptyBlob)
  \/ \E sid \in SessionIds \cup {MaxSessions + 1}, b \in Blobs : UpdateSessionState(sid, b)
  \/ \E sid \in SessionIds : CompleteSession(sid, 20, Absent)
  \/ \E sid \in SessionIds : AbandonSession(sid)

SpecState == Init /\ [][NextState]_vars

(* Two requests completing sessions of one user at the same time, never both
   the same session, with the reads and writes of process_session_completion
   as separate steps. *)
NextLostUpdate ==
  \/ StartSession("g1", "u1", EmptyBlob)
  \/ \E r \in Reqs, sid \in SessionIds : ReqBeginDistinct(r, sid, 20 * sid, Absent)
  \/ \E r \in Reqs : ReqCommit(r)
  \/ \E r \in Reqs : ReqAwardRead(r)
  \/ \E r \in Reqs : ReqAwardWrite(r)
  \/ \E r \in Reqs : ReqStatsRead(r)
  \/ \E r \in Reqs : ReqStatsWrite(r)
  \/ \E r \in Reqs : ReqFinish(r)

SpecLostUpdate == Init /\ [][NextLostUpdate]_vars

(* Two requests completing sessions at the same time, never both the same
   session, with the reads and writes of update_user_rakings as separate
   steps. *)
NextRankOverlap ==
  \/ \E u \in Users : StartSession("g1", u, EmptyBlob)
  \/ \E r \in Reqs, sid \in SessionIds : ReqBeginDistinct(r, sid, 20 * sid, Absent)
  \/ \E r \in Reqs : ReqCommit(r)
  \/ \E r \in Reqs : ReqProcess(r)
  \/ \E r \in Reqs : ReqEvaluate(r)
  \/ \E r \in Reqs : ReqRankFind(r)
  \/ \E r \in Reqs : ReqRankUpsert(r)
  \/ \E r \in Reqs : ReqRankRead(r)
  \/ \E r \in Reqs : ReqRankWrite(r)
  \/ \E r \in Reqs : ReqReturn(r)

SpecRankOverlap == Init /\ [][NextRankOverlap]_vars

(* Two requests evaluating achievements at the same time. *)
NextAchOverlap ==
  \/ \E r \in Reqs, u \in Users : AchBegin(r, u)
  \/ \E r \in Reqs : AchCommit(r)

SpecAchOverlap == Init /\ [][NextAchOverlap]_vars

(* Re-ranking: completions of two users, with equal and different scores,
   and recomputations of the ranks of a group between them. *)
NextRerank ==
  \/ \E u \in Users : StartSession("g1", u, EmptyBlob)
  \/ \E sid \in SessionIds, sc \in {20, 40} : CompleteSession(sid, sc, Absent)
  \/ \E l \in {"lb1", "lb5"} : RecalculateRanksCall(l, now)

SpecRerank == Init /\ [][NextRerank]_vars

(* Completion grant: process_session_completion on every input. *)
NextCompletion == ProcessSessionCompletionCall

SpecCompletion == InitCompletion /\ [][NextCompletion]_vars

(* Time bonus: _calculate_time_bonus on every input. *)
NextTimeBonus == CalculateTimeBonusCall

SpecTimeBonus == InitTimeBonus /\ [][NextTimeBonus]_vars

(* ------------------------------ claims -------------------------------- *)

(* C1: complete on a session that is not IN_PROGRESS (a second complete on a
   COMPLETED session in particular) returns the "Session is not active"
   error and leaves every session, and every other row, as it was. *)
C1_RejectedCompleteChangesNothing ==
  [][\A sid \in SessionIds :
       (/\ CompleteSession(sid, 20, Absent)
        /\ sid \in DOMAIN sessions
        /\ sessions[sid].status # IN_PROGRESS)
       => (/\ result'.error = ErrNotActive
           /\ sessions' = sessions
           /\ <<users, txs, stats, unlockCount, ua, entries>>'
                = <<users, txs, stats, unlockCount, ua, entries>>)]_vars

(* C1 witness: a complete call was rejected on a session that an earlier
   complete call had completed. *)
C1_Witness ==
  /\ result.op = "complete"
  /\ result.error = ErrNotActive
  /\ result.sid \in DOMAIN sessions
  /\ sessions[result.sid].status = COMPLETED
  /\ sessions[result.sid].completed_at < now

(* C2 as claimed: a session that is COMPLETED or ABANDONED keeps its status
   in every later state. *)
C2_TerminalStatusIsFinal ==
  [][\A sid \in DOMAIN sessions :
       sessions[sid].status \in {COMPLETED, ABANDONED}
       => sessions'[sid].status = sessions[sid].status]_vars

TxOfSession(sid) == {i \in DOMAIN txs : txs[i].session_id = sid}

(* C3 as claimed: a complete call whose pipeline failed leaves the session
   IN_PROGRESS and no XP transaction of that session, and a call that
   succeeded leaves the session COMPLETED with its grant and statistics. *)
C3_AllOrNothing ==
  (result.op = "complete" /\ result.sid \in DOMAIN sessions)
  => LET session == sessions[result.sid]
     IN  /\ result.error \in {Raised, ErrXP}
              => (session.status = IN_PROGRESS /\ TxOfSession(result.sid) = {})
         /\ result.error = ErrNone
              => (/\ session.status = COMPLETED
                  /\ TxOfSession(result.sid) # {}
                  /\ stats[session.user_id][session.game_id].exists)

(* C4: every user's total XP is the initial total (0) plus the sum of the
   amounts of the XP transactions recorded for that user. *)
C4_TotalIsSumOfTransactions ==
  \A u \in Users : users[u].total_xp = NewUser.total_xp + SumXP(txs, u)

(* C4 witness: a user with a completion grant and a penalty on the ledger. *)
C4_Witness ==
  \E u \in Users :
    /\ \E i \in DOMAIN txs : txs[i].user_id = u /\ txs[i].type = GAME_COMPLETION
    /\ \E i \in DOMAIN txs : txs[i].user_id = u /\ txs[i].xp_amount < 0
    /\ users[u].total_xp > 0

CompletionGrants(sid) ==
  {i \in DOMAIN txs : txs[i].type = GAME_COMPLETION /\ txs[i].session_id = sid}

(* C5 as claimed: under any interleaving of complete calls, no session has
   more than one GAME_COMPLETION transaction, and a session that is not
   COMPLETED has none. *)
C5_OneCompletionGrantPerSession ==
  \A sid \in DOMAIN sessions :
    /\ Cardinality(CompletionGrants(sid)) <= 1
    /\ sessions[sid].status = IN_PROGRESS => CompletionGrants(sid) = {}

(* C6: the unlocked_at of a UserAchievement row, once set, keeps its value
   in every later state: it is set at most once, never cleared and never
   overwritten. *)
C6_UnlockedAtIsWriteOnce ==
  [][\A u \in Users, a \in Achievements :
       (ua[u][a].exists /\ ua[u][a].unlocked_at # NULL)
       => (ua'[u][a].exists /\ ua'[u][a].unlocked_at = ua[u][a].unlocked_at)]_vars

(* C6 witness: a later evaluation for the same user has run, at a later
   time, while a row of that user had its unlocked_at set. *)
C6_Witness ==
  \E a \in Achievements :
    /\ result.op = "check"
    /\ result.user_id \in Users
    /\ ua[result.user_id][a].exists
    /\ ua[result.user_id][a].unlocked_at # NULL
    /\ ua[result.user_id][a].unlocked_at < now
    /\ result.evaluated # {}
    /\ a \notin result.evaluated

(* C7: an evaluation (a step that returns the result of check_achievements
   for the user) skips every achievement the user's row already marks
   unlocked: its requirement is not computed, it is not returned, its row and
   unlock_count stay as they were and no ACHIEVEMENT transaction is added
   for it; so there is never more than one ACHIEVEMENT grant per (user,
   achievement). *)
C7_ReevaluationIsIdempotent ==
  [][\A u \in Users, a \in Achievements :
       (/\ now' = now
        /\ result'.op = "check"
        /\ result'.user_id = u
        /\ ua[u][a].exists
        /\ ua[u][a].unlocked_at # NULL)
       => (/\ a \notin result'.evaluated
           /\ a \notin result'.unlocked.list
           /\ ua'[u][a] = ua[u][a]
           /\ unlockCount'[a] = unlockCount[a]
           /\ Cardinality({i \in DOMAIN txs' : /\ txs'[i].type = ACHIEVEMENT
                                               /\ txs'[i].user_id = u
                                               /\ txs'[i].reference_id = a}) <= 1)]_vars

(* C7 witness: two achievements are marked unlocked for a user, and a
   further call for that user skipped both. *)
C7_Witness ==
  /\ result.op = "check"
  /\ result.game_id = NoGame
  /\ \E a, b \in Achievements :
       /\ a # b
       /\ ua[result.user_id][a].exists /\ ua[result.user_id][a].unlocked_at # NULL
       /\ ua[result.user_id][b].exists /\ ua[result.user_id][b].unlocked_at # NULL
       /\ result.evaluated \cap {a, b} = {}

(* C8 as claimed: a stat_threshold rule with threshold > 0 reports unlocked
   exactly when the stat's value is at least the threshold, with progress
   {current, required = threshold, percentage = min(100, floor(current * 100
   / threshold))}. *)
C8_StatThresholdCompares ==
  (fout.done /\ fin.type = "stat_threshold" /\ fin.required > 0)
  => /\ ~fout.raised
     /\ fout.is_unlocked = (fin.current >= fin.required)
     /\ fout.progress.current = fin.current
     /\ fout.progress.required = fin.required
     /\ fout.progress.has_pct
     /\ fout.progress.percentage = Min(100, (fin.current * 100) \div fin.required)

(* C9 as claimed: a call of check_achievements for (user, game id?) returns
   a list and computes the requirement of every active achievement that is
   platform-wide or scoped to the given game and that the user has not
   unlocked before. *)
C9_EveryMatchingAchievementEvaluated ==
  [][\A u \in Users, g \in Games \cup {NoGame} :
       CheckAchievementsCall(u, g)
       => /\ ~result'.unlocked.is_none
          /\ \A a \in Achievements :
               (/\ AchievementRow[a].is_active
                /\ \/ AchievementRow[a].game_id = NoGame
                   \/ (g # NoGame /\ AchievementRow[a].game_id = g)
                /\ ~(ua[u][a].exists /\ ua[u][a].unlocked_at # NULL))
               => a \in result'.evaluated]_vars

(* C10: the entries sharing one (leaderboard, period_start) have ranks that
   are exactly 1..N, without gaps or duplicates, and an entry with a higher
   score never has a larger rank than one with a lower score. *)
C10_RanksAreDenseAndDescending ==
  \A e \in entries :
    LET group == {x \in entries : /\ x.leaderboard_id = e.leaderboard_id
                                  /\ x.period_start = e.period_start}
    IN  /\ {x.rank : x \in group} = 1 .. Cardinality(group)
        /\ \A x, y \in group : x.score_value > y.score_value => x.rank < y.rank

(* C10 witness: two users with different scores share one (leaderboard,
   period_start) and hold ranks 1 and 2. *)
C10_Witness ==
  \E x, y \in entries :
    /\ x.leaderboard_id = y.leaderboard_id
    /\ x.period_start = y.period_start
    /\ x.user_id # y.user_id
    /\ x.score_value > y.score_value
    /\ x.rank = 1 /\ y.rank = 2

(* The min_games gate of a leaderboard as its ranking criteria state it:
   the configured value, else 5 for average_score and 0 otherwise. *)
GateOf(l) ==
  IF LeaderboardRow[l].has_min THEN LeaderboardRow[l].min_games
  ELSE IF LeaderboardRow[l].type = "average_score" THEN 5 ELSE 0

(* C11: on a leaderboard ranked by game_xp, best_score or average_score, a
   user whose games_completed for the game is below min_games has no entry,
   and so no rank, on that leaderboard. *)
C11_BelowMinGamesHasNoEntry ==
  \A l \in Leaderboards, u \in Users :
    (/\ LeaderboardRow[l].type \in {"game_xp", "best_score", "average_score"}
     /\ LeaderboardRow[l].game_id \in Games
     /\ stats[u][LeaderboardRow[l].game_id].games_completed < GateOf(l))
    => ~\E e \in entries : e.leaderboard_id = l /\ e.user_id = u

(* C11 witness: a user who completed one game is ranked on the best_score
   leaderboard (min_games 1) next to another user, and has no entry on the
   game_xp leaderboard (min_games 2) and none on the average_score one. *)
C11_Witness ==
  \E u, v \in Users :
    /\ u # v
    /\ stats[u]["g1"].games_completed = 1
    /\ \E e \in entries : e.leaderboard_id = "lb1" /\ e.user_id = u
    /\ ~\E e \in entries : e.leaderboard_id = "lb3" /\ e.user_id = u
    /\ ~\E e \in entries : e.leaderboard_id = "lb4" /\ e.user_id = u
    /\ \E e \in entries : e.leaderboard_id = "lb1" /\ e.user_id = v

(* C12 as claimed: after a successful complete, every active leaderboard
   scoped to the session's game or platform-wide on which the user
   qualifies holds an entry of the user written by that call. *)
C12_EveryMatchingLeaderboardUpdated ==
  (result.op = "complete" /\ result.error = ErrNone)
  => LET session == sessions[result.sid]
     IN  \A l \in Leaderboards :
           (/\ LeaderboardRow[l].is_active
            /\ LeaderboardRow[l].game_id \in {session.game_id, NoGame}
            /\ \/ LeaderboardRow[l].type = "total_xp"
               \/ stats[session.user_id][session.game_id].games_completed >= Max(GateOf(l), 1))
           => \E e \in entries : /\ e.leaderboard_id = l
                                 /\ e.user_id = session.user_id
                                 /\ e.last_updated = session.completed_at

(* The time bonus as specified: min(max_bonus, floor(max(0, target_seconds -
   duration_seconds) * bonus_per_second)), 0 without a configuration. *)
SpecifiedTimeBonus(duration_seconds, cfg) ==
  IF ~cfg.present THEN 0
  ELSE Min(cfg.max_bonus,
           (Max(0, cfg.target_seconds - duration_seconds) * cfg.bonus_per_second[1])
             \div cfg.bonus_per_second[2])

(* C13 as claimed: the first completion grant on the ledger (no statistics
   row existed before it, so its streak bonus is 0) has the amount base_xp +
   floor(score * score_multiplier) + time_bonus, and the session's xp_earned
   is the same amount. *)
C13_CompletionXpFormula ==
  (Len(txs) >= 1 /\ txs[1].type = GAME_COMPLETION)
  => LET session == sessions[txs[1].session_id]
         xp_calc == XpCalculation[session.game_id]
         score_xp == IF xp_calc.score_multiplier[1] = 0 THEN 0
                     ELSE (session.score * xp_calc.score_multiplier[1])
                            \div xp_calc.score_multiplier[2]
     IN  /\ txs[1].xp_amount
              = xp_calc.base + score_xp
                + SpecifiedTimeBonus(session.duration_seconds, xp_calc.time_bonus)
         /\ session.xp_earned = txs[1].xp_amount

(* C14 as claimed: with a time-bonus configuration the bonus is min(max_bonus,
   floor(max(0, target_seconds - duration_seconds) * bonus_per_second)): 0
   from target_seconds on, and with target 60, rate 0.5 and cap 50 it is 15
   for duration 30 and 30 for duration 0. *)
C14_TimeBonusRewardsSavedSeconds ==
  (fout.done /\ fin.type = "time_bonus")
  => fout.value = SpecifiedTimeBonus(fin.duration_seconds, fin.cfg)

(* C15 as claimed: a completion that updates the statistics of a (user,
   game) sets current_streak to 1 when there was no prior play, adds 1 when
   exactly one whole day has passed since last_played_at, resets it to 1
   after more than one day, and leaves it unchanged on the same day. *)
C15_StreakFollowsDaysElapsed ==
  [][\A u \in Users, g \in Games :
       stats'[u][g] # stats[u][g]
       => LET old == stats[u][g]
              days == (now - old.last_played_at) \div DayLen
          IN  stats'[u][g].current_streak
                = IF ~old.exists THEN 1
                  ELSE IF days = 1 THEN old.current_streak + 1
                  ELSE IF days > 1 THEN 1
                  ELSE old.current_streak]_vars

(* The completed sessions of a (user, game), and the sum of their scores. *)
CompletedOf(u, g) ==
  {i \in DOMAIN sessions : /\ sessions[i].user_id = u
                           /\ sessions[i].game_id = g
                           /\ sessions[i].status = COMPLETED}

RECURSIVE SumScores(_)
SumScores(ids) ==
  IF ids = {} THEN 0
  ELSE LET i == CHOOSE x \in ids : TRUE IN sessions[i].score + SumScores(ids \ {i})

(* C16 as claimed: once the statistics of a (user, game) count all n >= 1 of
   its completed sessions, average_score is the mean of their n scores,
   scores of 0 included. *)
C16_AverageIsBatchMean ==
  \A u \in Users, g \in Games :
    LET done == CompletedOf(u, g)
        n == Cardinality(done)
    IN  (n >= 1 /\ stats[u][g].games_completed = n)
        => stats[u][g].average_score[1] * n
             = SumScores(done) * stats[u][g].average_score[2]

(* C17 as claimed: a state update on a COMPLETED or ABANDONED session
   returns an error and leaves the stored game state as it was, and a state
   update on a missing session returns the not-found error. *)
C17_UpdateOnlyWhileInProgress ==
  [][(now' = now /\ result'.op = "update")
     => /\ result'.sid \notin DOMAIN sessions => result'.error = ErrSessionNotFound
        /\ (/\ result'.sid \in DOMAIN sessions
            /\ sessions[result'.sid].status \in {COMPLETED, ABANDONED})
           => (/\ result'.error # ErrNone
               /\ sessions'[result'.sid].game_state = sessions[result'.sid].game_state)]_vars

(* C18: a successful abandon changes nothing but the status and
   completed_at of its session: users' totals and levels, the XP
   transactions, the statistics, the achievement rows and unlock counts, the
   leaderboard entries and every other session stay as they were. *)
C18_AbandonTouchesOnlyItsSession ==
  [][(now' = now /\ result'.op = "abandon" /\ result'.error = ErrNone)
     => /\ <<users, txs, stats, ua, unlockCount, entries, playCount>>'
             = <<users, txs, stats, ua, unlockCount, entries, playCount>>
        /\ DOMAIN sessions' = DOMAIN sessions
        /\ \A sid \in DOMAIN sessions :
             sessions'[sid] = IF sid = result'.sid
                              THEN [sessions[sid] EXCEPT
                                      !.status = sessions'[sid].status,
                                      !.completed_at = sessions'[sid].completed_at]
                              ELSE sessions[sid]]_vars

(* C18 witness: a session was abandoned after another session of the same
   user had been completed and rewarded. *)
C18_Witness ==
  /\ result.op = "abandon"
  /\ result.error = ErrNone
  /\ sessions[result.sid].status = ABANDONED
  /\ \E i \in DOMAIN txs : /\ txs[i].user_id = sessions[result.sid].user_id
                           /\ txs[i].session_id # result.sid
  /\ stats[sessions[result.sid].user_id][sessions[result.sid].game_id].exists

(* C19: start succeeds exactly when the game exists and is active and the
   user exists, and then adds one session, IN_PROGRESS, of that game and
   user, leaving the earlier sessions as they were; otherwise it returns an
   error and changes no session, no play_count and no other row. *)
C19_StartCreatesOneSessionOrNothing ==
  [][\A g \in GameIds, u \in UserIds :
       StartSession(g, u, EmptyBlob)
       => IF g \in {"g1"} /\ u \in {"u1", "u2"}
          THEN /\ result'.error = ErrNone
               /\ Len(sessions') = Len(sessions) + 1
               /\ SubSeq(sessions', 1, Len(sessions)) = sessions
               /\ sessions'[Len(sessions')].status = IN_PROGRESS
               /\ sessions'[Len(sessions')].game_id = g
               /\ sessions'[Len(sessions')].user_id = u
               /\ <<users, txs, stats, ua, unlockCount, entries>>'
                    = <<users, txs, stats, ua, unlockCount, entries>>
          ELSE /\ result'.error # ErrNone
               /\ <<sessions, playCount, users, txs, stats, ua, unlockCount, entries>>'
                    = <<sessions, playCount, users, txs, stats, ua, unlockCount, entries>>]_vars

(* C19 witness: a start was refused for a missing user after an earlier
   start had created a session, and the play_count still counts that one
   session only. *)
C19_Witness ==
  /\ result.op = "start"
  /\ result.error = ErrUser
  /\ Len(sessions) = 1
  /\ playCount["g1"] = 1

(* C20: the XP transaction log only grows: every transaction recorded stays
   at its place in every later state with the same user, amount, type and
   references. *)
C20_LedgerIsAppendOnly ==
  [][/\ Len(txs') >= Len(txs)
     /\ \A i \in DOMAIN txs : txs'[i] = txs[i]]_vars

(* C20 witness: the ledger holds two completion grants of one user and a
   penalty recorded between or after them. *)
C20_Witness ==
  /\ Len(txs) = 3
  /\ \E i, j \in DOMAIN txs :
       /\ i < j
       /\ txs[i].type = GAME_COMPLETION /\ txs[j].type = GAME_COMPLETION
       /\ txs[i].user_id = txs[j].user_id
  /\ \E k \in DOMAIN txs : txs[k].type = "PENALTY"

(* C21: levels follow total XP by one non-decreasing function: across the
   users of a state and across the two states of a step, no more XP never
   goes with a higher level (so equal XP goes with equal level), and an
   award or a completion reports leveled_up exactly when the user's level
   after it is greater than before. *)
C21_LevelFollowsTotalXp ==
  [][/\ \A u, v \in Users :
          /\ users'[u].total_xp <= users'[v].total_xp
               => users'[u].current_level <= users'[v].current_level
          /\ users[u].total_xp <= users'[v].total_xp
               => users[u].current_level <= users'[v].current_level
          /\ users'[u].total_xp <= users[v].total_xp
               => users'[u].current_level <= users[v].current_level
     /\ \A u \in Users :
          (/\ result'.op = "award" /\ result'.user_id = u /\ result'.error = ErrNone
           /\ users'[u] # users[u])
          => result'.leveled_up = (users'[u].current_level > users[u].current_level)
     /\ (/\ result'.op = "complete" /\ result'.error = ErrNone
         /\ Len(txs') = Len(txs) + 1)
        => LET u == txs'[Len(txs')].user_id
           IN  result'.leveled_up = (users'[u].current_level > users[u].current_level)]_vars

(* C21 witness: a completion has reported a level-up, another user is on a
   lower level, and a penalty has been recorded. *)
C21_Witness ==
  /\ result.op = "complete"
  /\ result.leveled_up
  /\ \E u, v \in Users : users[u].current_level < users[v].current_level
  /\ \E i \in DOMAIN txs : txs[i].type = "PENALTY"

(* C22: under overlapping evaluations, a (user, achievement) pair has at
   most one UserAchievement row and at most one ACHIEVEMENT transaction, and
   unlock_count counts no pair more than once. *)
C22_OverlappingEvaluationsUnlockOnce ==
  /\ \A u \in Users, a \in Achievements :
       /\ ua[u][a].rows <= 1
       /\ Cardinality({i \in DOMAIN txs : /\ txs[i].type = ACHIEVEMENT
                                          /\ txs[i].user_id = u
                                          /\ txs[i].reference_id = a}) <= 1
  /\ \A a \in Achievements :
       unlockCount[a] <= Cardinality({u \in Users : ua[u][a].exists})

(* C22 witness: of two evaluations of one pair that both found no row, one
   created the row and the other has just been refused. *)
C22_Witness ==
  /\ result.op = "check"
  /\ result.error = Raised
  /\ \E a \in result.evaluated : ua[result.user_id][a].rows = 1

RECURSIVE SumEarned(_)
SumEarned(ids) ==
  IF ids = {} THEN 0
  ELSE LET i == CHOOSE x \in ids : TRUE IN sessions[i].xp_earned + SumEarned(ids \ {i})

(* C23 as claimed: once no completion is in flight, the statistics of a
   (user, game) count every completed session exactly once, total_xp_earned
   and the user's total XP are the sums of the grants, and average_score is
   the mean of the completed scores. *)
C23_OverlappingCompletionsLoseNoUpdate ==
  (\A r \in Reqs : reqs[r].pc = "idle")
  => \A u \in Users, g \in Games :
       LET done == CompletedOf(u, g)
           n == Cardinality(done)
       IN  n >= 1 =>
             /\ stats[u][g].games_played = n
             /\ stats[u][g].games_completed = n
             /\ stats[u][g].total_xp_earned = SumEarned(done)
             /\ users[u].total_xp = SumXP(txs, u)
             /\ stats[u][g].average_score[1] * n
                  = SumScores(done) * stats[u][g].average_score[2]

(* C24 as claimed: once no completion is in flight, the entries of two
   different users in one (leaderboard, period_start) group hold different
   ranks from 1 to the size of the group, none 0, the higher score the
   better rank. *)
C24_OverlappingRankingsEndConsistent ==
  (\A r \in Reqs : reqs[r].pc = "idle")
  => \A x, y \in entries :
       (/\ x.leaderboard_id = y.leaderboard_id
        /\ x.period_start = y.period_start
        /\ x.user_id # y.user_id)
       => LET n == Cardinality(Group(entries, x.leaderboard_id, x.period_start))
          IN  /\ x.rank \in 1 .. n
              /\ x.rank # y.rank
              /\ x.score_value > y.score_value => x.rank < y.rank

(* C29: the entries table holds at most one entry per (leaderboard, user,
   period_start), also while completions of one user overlap. *)
C29_OneEntryPerUserAndPeriod ==
  \A x, y \in entries :
    (/\ x.leaderboard_id = y.leaderboard_id
     /\ x.user_id = y.user_id
     /\ x.period_start = y.period_start)
    => x = y

(* C29 witness: two completions of one user overlapped; both looked for the
   user's entry before either created it, one created it and the other has
   just been refused. *)
C29_Witness ==
  /\ result.op = "complete"
  /\ result.error = Raised
  /\ \E r \in Reqs : reqs[r].pc # "idle" /\ reqs[r].sid # result.sid
  /\ \E e \in entries : e.user_id = sessions[result.sid].user_id

(* C25: the stages of a complete call run in the order session, completion
   grant, statistics, achievements, rankings: every leaderboard entry the
   call wrote carries the score that the user's total XP and the (user,
   game) statistics give at the end of the call, this session included. *)
C25_RankingReadsEndOfCallTotals ==
  (result.op = "complete" /\ result.error = ErrNone)
  => LET session == sessions[result.sid]
         u == session.user_id
         st == stats[u][session.game_id]
     IN  /\ st.games_completed >= 1
         /\ st.total_xp_earned >= session.xp_earned
         /\ \E e \in entries : /\ e.leaderboard_id = "lb5"
                               /\ e.user_id = u
                               /\ e.last_updated = session.completed_at
         /\ \A e \in entries :
              (e.user_id = u /\ e.last_updated = session.completed_at)
              => LET type == LeaderboardRow[e.leaderboard_id].type
                 IN  /\ type = "total_xp" => e.score_value = users[u].total_xp
                     /\ type = "game_xp" => e.score_value = st.total_xp_earned
                     /\ type = "best_score" => e.score_value = st.best_score

(* C25 witness: a user's second completion has written entries ranked by
   total XP and by game XP, both with this completion's grant included. *)
C25_Witness ==
  /\ result.op = "complete"
  /\ result.error = ErrNone
  /\ LET session == sessions[result.sid]
         u == session.user_id
     IN  /\ stats[u]["g1"].games_completed = 2
         /\ session.xp_earned > 0
         /\ \E e \in entries : /\ e.leaderboard_id = "lb5" /\ e.user_id = u
                               /\ e.last_updated = session.completed_at
                               /\ e.score_value = users[u].total_xp
         /\ \E e \in entries : /\ e.leaderboard_id = "lb3" /\ e.user_id = u
                               /\ e.last_updated = session.completed_at
                               /\ e.score_value = stats[u]["g1"].total_xp_earned

(* C26: the streak bonus in a completion grant is min(max_bonus,
   current_streak * bonus_per_day) for the current_streak the statistics row
   had before this completion updated it, and 0 when there was no row or no
   streak_bonus configuration. *)
C26_StreakBonusUsesPriorStreak ==
  (fout.done /\ fin.type = "completion")
  => LET cfg == XpCalculation[fin.game].streak_bonus
         bonus == IF cfg.present /\ fin.has_stats
                  THEN Min(cfg.max_bonus, fin.current_streak * cfg.bonus_per_day)
                  ELSE 0
     IN  /\ fout.meta.streak_bonus = bonus
         /\ Len(txs) = 1
         /\ txs[1].xp_amount
              = fout.meta.base_xp + fout.meta.score_xp + fout.meta.time_bonus + bonus

(* C26 witness: a completion a day after the last play raised the streak
   from 3 to 4 and was granted the bonus of a streak of 3. *)
C26_Witness ==
  /\ fout.done
  /\ fin.type = "completion"
  /\ fin.game = "g1"
  /\ fin.has_stats
  /\ fin.current_streak = 3
  /\ stats["u1"]["g1"].current_streak = 4
  /\ fout.meta.streak_bonus = 15

(* C27: for non-negative durations, streaks and configuration values, the
   time bonus and the streak bonus of a completion are each between 0 and
   the max_bonus of their configuration block and 0 without the block, and
   the grant is at most base_xp + floor(score * score_multiplier) + both
   max_bonus values. *)
C27_BonusesAreCapped ==
  (fout.done /\ fin.type = "completion")
  => LET xp_calc == XpCalculation[fin.game]
         score_xp == (fin.score * xp_calc.score_multiplier[1])
                       \div xp_calc.score_multiplier[2]
     IN  /\ fout.meta.time_bonus \in 0 .. xp_calc.time_bonus.max_bonus
         /\ fout.meta.streak_bonus \in 0 .. xp_calc.streak_bonus.max_bonus
         /\ ~xp_calc.time_bonus.present => fout.meta.time_bonus = 0
         /\ ~xp_calc.streak_bonus.present => fout.meta.streak_bonus = 0
         /\ fout.value <= xp_calc.base + score_xp + xp_calc.time_bonus.max_bonus
                            + xp_calc.streak_bonus.max_bonus
         /\ \A i \in DOMAIN txs : txs[i].xp_amount = fout.value

(* C27 witness: a completion whose uncapped bonuses (60 * 3 * 0.5 = 90 for
   time, 25 * 5 = 125 for the streak) both exceed their max_bonus was granted
   exactly the two max_bonus values on top of base and score XP. *)
C27_Witness ==
  /\ fout.done
  /\ fin.type = "completion"
  /\ fin.game = "g3"
  /\ fin.duration_seconds = 3
  /\ fin.has_stats
  /\ fin.current_streak = 25
  /\ fout.meta.time_bonus = 50
  /\ fout.meta.streak_bonus = 100
  /\ fout.value = fout.meta.base_xp + fout.meta.score_xp + 150

(* C28 as claimed: all entries of an ALL_TIME leaderboard carry one and the
   same period_start, and entries of a DAILY leaderboard written within one
   day carry the same period_start; so a user has one entry per leaderboard
   and period, which repeated completions update. *)
C28_PeriodStartIsStable ==
  \A x, y \in entries :
    x.leaderboard_id = y.leaderboard_id
    => LET time_period == LeaderboardRow[x.leaderboard_id].time_period
       IN  /\ time_period = "ALL_TIME" => x.period_start = y.period_start
           /\ (/\ time_period = "DAILY"
               /\ x.last_updated \div DayLen = y.last_updated \div DayLen)
              => x.period_start = y.period_start
           /\ (time_period = "ALL_TIME" /\ x.user_id = y.user_id) => x = y

(* C30 as claimed: a recomputation of the ranks of a group in which no entry
   was added and no score changed leaves the rank of every entry as it was. *)
C30_RecomputationKeepsRanks ==
  [][(/\ result'.op = "rerank"
      /\ {[e EXCEPT !.rank = 0] : e \in entries'} = {[e EXCEPT !.rank = 0] : e \in entries})
     => entries' = entries]_vars

(* C31 as claimed: a requirement whose required value is 0 (or missing),
   whatever its type, evaluates without raising to not unlocked with
   percentage 0. *)
C31_MalformedRuleIsNotFatal ==
  (fout.done /\ fin.type \in RequirementTypes /\ fin.required <= 0)
  => /\ ~fout.raised
     /\ ~fout.is_unlocked
     /\ fout.progress.percentage = 0

(* C32 as claimed: after every step, the unlock_count of each achievement is
   the number of users whose UserAchievement row of it has unlocked_at set,
   and it is not lower than before the step. *)
C32_UnlockCountCountsUnlockedRows ==
  [][\A a \in Achievements :
       /\ unlockCount'[a] >= unlockCount[a]
       /\ unlockCount'[a]
            = Cardinality({u \in Users : ua'[u][a].exists /\ ua'[u][a].unlocked_at # NULL})]_vars

(* C36 as claimed: a tracking row that an evaluation created or updated
   while reporting the achievement as not unlocked has a null unlocked_at,
   and the next evaluation for that user does not skip it. *)
C36_UnmetRequirementLeavesRowLocked ==
  [][\A u \in Users, a \in Achievements :
       /\ (/\ now' = now
           /\ result'.op = "check"
           /\ result'.user_id = u
           /\ a \in result'.evaluated
           /\ result'.error = ErrNone
           /\ a \notin result'.unlocked.list)
          => (ua'[u][a].exists /\ ua'[u][a].unlocked_at = NULL)
       /\ (ua[u][a].exists /\ unlockCount[a] = 0) => ~AlreadyUnlocked(ua[u][a])]_vars

(* C33 as claimed: in every state each (user, game) has at most one
   UserGameStats row, and its games_completed is at most its games_played. *)
C33_OneStatsRowPerUserAndGame ==
  \A u \in Users, g \in Games :
    /\ stats[u][g].rows <= 1
    /\ stats[u][g].exists = (stats[u][g].rows >= 1)
    /\ stats[u][g].games_completed <= stats[u][g].games_played

(* C34 as claimed: a complete call that takes a session from IN_PROGRESS to
   COMPLETED raises no error in the merge and leaves the custom stat of the
   (user, game) as: unchanged when the final stats lack the key, the sum of
   the stored value (0 when absent) and the new value when both are numeric,
   and the new value in every other case. *)
C34_CustomStatsMerge ==
  [][\A sid \in DOMAIN sessions :
       (/\ result'.op = "complete"
        /\ result'.sid = sid
        /\ sessions[sid].status = IN_PROGRESS
        /\ sessions'[sid].status = COMPLETED)
       => LET u == sessions[sid].user_id
              g == sessions[sid].game_id
              value == sessions'[sid].final_stats
              stored == stats[u][g].custom_stats
          IN  /\ result'.error # Raised
              /\ stats'[u][g].custom_stats
                   = IF ~value.present THEN stored
                     ELSE IF value.num /\ (~stored.present \/ stored.num)
                          THEN Num((IF stored.present THEN stored.v ELSE 0) + value.v)
                          ELSE value]_vars

(* C35 as claimed: after every step, best_score of a (user, game) is the
   highest score among its COMPLETED sessions that reported one (0 when
   none) and not lower than before, and best_streak is at least
   current_streak and not lower than before. *)
C35_BestScoreAndBestStreak ==
  [][\A u \in Users, g \in Games :
       LET scored == {sessions'[i].score : i \in {j \in DOMAIN sessions' :
                                                    /\ sessions'[j].user_id = u
                                                    /\ sessions'[j].game_id = g
                                                    /\ sessions'[j].status = COMPLETED
                                                    /\ sessions'[j].score # 0}}
           best == IF scored = {} THEN 0 ELSE CHOOSE m \in scored : \A x \in scored : x <= m
       IN  /\ stats'[u][g].best_score = best
           /\ stats'[u][g].best_score >= stats[u][g].best_score
           /\ stats'[u][g].best_streak >= stats'[u][g].current_streak
           /\ stats'[u][g].best_streak >= stats[u][g].best_streak]_vars

(* C37 as claimed: in every state the games_completed of a (user, game) is
   the number of its sessions with status COMPLETED, and total_xp_earned is
   the sum of their xp_earned. *)
C37_StatsMatchCompletedSessions ==
  \A u \in Users, g \in Games :
    LET done == CompletedOf(u, g)
    IN  /\ stats[u][g].games_completed = Cardinality(done)
        /\ stats[u][g].total_xp_earned = SumEarned(done)

(* C38 as claimed: in every state a session's completed flag is true exactly
   when its status is COMPLETED, and a session that is not COMPLETED has
   xp_earned 0. *)
C38_CompletedFlagMatchesStatus ==
  \A sid \in DOMAIN sessions :
    /\ sessions[sid].completed = (sessions[sid].status = COMPLETED)
    /\ (sessions[sid].status # COMPLETED) => (sessions[sid].xp_earned = 0)

(* The sessions of a (user, game) that are IN_PROGRESS, i.e. the rows the
   query of get_active_session matches. *)
ActiveOf(u, g) ==
  {sid \in DOMAIN sessions : /\ sessions[sid].user_id = u
                             /\ sessions[sid].game_id = g
                             /\ sessions[sid].status = IN_PROGRESS}

(* C39 as claimed: in every state a (user, game) has at most one
   IN_PROGRESS session, so get_active_session has a unique candidate. *)
C39_OneActiveSessionPerUserAndGame ==
  \A u \in Users, g \in Games : Cardinality(ActiveOf(u, g)) <= 1

(* C40 as claimed: every COMPLETED session with no completion request still
   in flight has exactly one GAME_COMPLETION transaction referencing it, that
   transaction carries the session's user and game, and its xp_amount is the
   session's xp_earned. *)
C40_SessionXpIsItsOneGrant ==
  \A sid \in DOMAIN sessions :
    (/\ sessions[sid].status = COMPLETED
     /\ \A r \in Reqs : reqs[r].pc = "idle" \/ reqs[r].sid # sid)
    => \E i \in CompletionGrants(sid) :
         /\ CompletionGrants(sid) = {i}
         /\ txs[i].xp_amount = sessions[sid].xp_earned
         /\ txs[i].user_id = sessions[sid].user_id
         /\ txs[i].game_id = sessions[sid].game_id

====
